---------------------------- MODULE Spec2Model ----------------------------
(***************************************************************************)
(* Points-and-redemption ledger of the AR city backend: check-in           *)
(* (src/src/routes/checkins.js 7-107), reward redemption                   *)
(* (src/unnamed/part_006 82-167) and place redemption                      *)
(* (src/src/routes/checkins.js 329-365) against the shared user, check-in  *)
(* and reward-history collections; next to them the account routes         *)
(* (src/unnamed/part_007, part_008, bookmarks of checkins.js 285-326) and  *)
(* the sanitising and validation of a check-in body                        *)
(* (src/src/middleware/sanitization.js, validation.js), and the token      *)
(* blacklist of logout (src/src/middleware/security.js 136-151).           *)
(*                                                                         *)
(* Every handler is an async function: between two awaited store           *)
(* operations other requests may run.  One action of the model is one      *)
(* store operation of a handler together with the synchronous code that    *)
(* follows it up to the next await (or the response).                      *)
(*                                                                         *)
(* Lengths are integers in units of 1/Scale metre, positions are arc       *)
(* lengths along one meridian, time is an integer tick.                    *)
(***************************************************************************)
EXTENDS Integers, Sequences, FiniteSets, TLC

VARIABLES
  now,        \* the server clock (ticks), read by new Date()
  users,      \* User collection: id -> document
  places,     \* Place collection: id -> document
  rewards,    \* Reward collection: id -> document
  checkins,   \* Checkin collection, in insertion order
  history,    \* RewardHistory collection (the ledger), in insertion order
  reqs,       \* the requests being processed: the position of each handler
              \* and its local variables (a finished one stays until a new
              \* request takes its place)
  tally,      \* what the clients have seen so far: requests sent, answers
              \* by kind, points credited and points spent, tokens logged out
  blacklistedTokens
              \* the in-memory Set of the tokens submitted to POST /logout

vars == <<now, users, places, rewards, checkins, history, reqs, tally, blacklistedTokens>>

---------------------------------------------------------------------------
(* Bounds of the model *)

MaxRequests == 3      \* requests received in one run
MaxTime == 3          \* last clock tick
TicksPerDay == 2      \* clock ticks in one calendar day

(* Program constants *)

Scale == 10000        \* resolution of a length: 1/Scale metre
CheckinPoints == 10   \* const pointsAwarded = 10
MaxDistance == 20     \* if (distance > 20)
MinDistance == 10     \* if (distance < 10)

---------------------------------------------------------------------------
(* Documents *)

Null == [exists |-> FALSE]
NoDate == -1
NoResp == [status |-> 0]

UserIds == {"u1"}
PlaceIds == {"p1", "p2"}
RewardIds == {"r1", "r2", "r3"}
MissingPlaceId == "pX"
MissingRewardId == "rX"

\* rewardPoints: { total: { default: 0 } }, rewards: [], as created by
\* POST /register with rewardPoints: { total: 0 }
NewUser(id) ==
  [exists |-> TRUE, id |-> id, total |-> 0, rewards |-> <<>>,
   firstName |-> "Ann", role |-> "user", bookmarks |-> <<>>]

InitPlaces ==
  [p \in PlaceIds |->
     IF p = "p1"
       THEN [exists |-> TRUE, id |-> p, name |-> "Museum", location |-> <<0, 0>>,
             redemption |-> [eligible |-> FALSE, pointsCost |-> 0]]
       ELSE [exists |-> TRUE, id |-> p, name |-> "Cafe", location |-> <<0, 30 * Scale>>,
             redemption |-> [eligible |-> TRUE, pointsCost |-> 50]]]

InitRewards ==
  [r \in RewardIds |->
     CASE r = "r1" -> [exists |-> TRUE, id |-> r, name |-> "Coffee",
                       shortDescription |-> "A cup of coffee", pointsCost |-> 30,
                       isActive |-> TRUE, validUntil |-> NoDate]
       [] r = "r2" -> [exists |-> TRUE, id |-> r, name |-> "Ticket",
                       shortDescription |-> "A museum ticket", pointsCost |-> 30,
                       isActive |-> FALSE, validUntil |-> 0]
       [] OTHER    -> [exists |-> TRUE, id |-> r, name |-> "Sticker",
                       shortDescription |-> "A city sticker", pointsCost |-> 10,
                       isActive |-> TRUE, validUntil |-> 1]]

---------------------------------------------------------------------------
(* Store operations *)

\* Model.findById(id): the document, or null
FindById(coll, id) == IF id \in DOMAIN coll /\ coll[id].exists THEN coll[id] ELSE Null

Abs(x) == IF x < 0 THEN -x ELSE x

\* calculateDistance(lat1, lng1, lat2, lng2) for two points of one meridian
\* (lng1 = lng2): the haversine distance is the arc between the latitudes
calculateDistance(lat1, lng1, lat2, lng2) == Abs(lat2 - lat1)

\* the hours of today are not reset
StartOfNow(t) == t

\* today is the moment 24 hours back (less one tick)
StartOfLastDay(t) == t - TicksPerDay + 1

\* today.setHours(0, 0, 0, 0)
StartOfDay(t) == (t \div TicksPerDay) * TicksPerDay

\* tomorrow.setDate(tomorrow.getDate() + 1)
NextDay(t) == t + TicksPerDay

\* the query asks for $gt: today
CheckinExistsAfter(uid, pid, today, tomorrow) ==
  \E i \in 1..Len(checkins) :
     /\ checkins[i].userId = uid
     /\ checkins[i].placeId = pid
     /\ checkins[i].timestamp > today
     /\ checkins[i].timestamp < tomorrow

\* Checkin.findOne({ userId, placeId, timestamp: { $gte: today, $lt: tomorrow } })
CheckinExists(uid, pid, today, tomorrow) ==
  \E i \in 1..Len(checkins) :
     /\ checkins[i].userId = uid
     /\ checkins[i].placeId = pid
     /\ checkins[i].timestamp >= today
     /\ checkins[i].timestamp < tomorrow


\* the entries pushed on the local document are not written
SaveUserTotalOnly(stored, total, pushed) == [stored EXCEPT !.total = total]

\* user.save(): the modified paths are written, $set rewardPoints.total and
\* $push of the new entries of rewards; every other field keeps the stored value
SaveUser(stored, total, pushed) ==
  [stored EXCEPT !.total = total, !.rewards = @ \o pushed]

\* validation run by save(): rewardPoints.total has min: 0, and the document
\* must still be in the collection
SaveAccepted(uid, total) == FindById(users, uid).exists /\ total >= 0

\* the ledger records the size of the amount, without its sign
HistoryEntryUnsigned(uid, amount, reason, name) ==
  [userId |-> uid, amount |-> Abs(amount), reason |-> <<reason, name>>, timestamp |-> now]

\* RewardHistory.create({ userId, amount, reason, timestamp: new Date() })
HistoryEntry(uid, amount, reason, name) ==
  [userId |-> uid, amount |-> amount, reason |-> <<reason, name>>, timestamp |-> now]

---------------------------------------------------------------------------
(* Requests *)

Response(status, message, data) == [status |-> status, message |-> message, data |-> data]

ServerError == Response(500, "Server error", <<>>)

\* jwt.sign({ id: user._id, ... }): the token of a session of a user
Token(uid, session) == [id |-> uid, session |-> session]

\* no Authorization header, or one without a token after 'Bearer '
NoToken == Token("none", 0)

NewRequest(kind, uid, target, coordinates, pc) ==
  [kind |-> kind, pc |-> pc, userId |-> uid, target |-> target,
   coordinates |-> coordinates, token |-> NoToken,
   place |-> Null, reward |-> Null, user |-> Null,
   distance |-> -1, today |-> NoDate, timestamp |-> NoDate, at |-> NoDate,
   body |-> <<>>, resp |-> NoResp]

\* two requests are processed at the same time
Slots == {1, 2}

Idle == NewRequest("none", "none", "none", <<>>, "done")

InFlight == {i \in Slots : reqs[i].pc # "done"}

Min(S) == CHOOSE x \in S : \A y \in S : x <= y

\* return res.status(...).json(...): the handler ends and its local
\* variables are gone; the request and its answer stay
Reply(i, response) ==
  [reqs EXCEPT ![i] = [NewRequest(@.kind, @.userId, @.target, @.coordinates, "done")
                          EXCEPT !.resp = response, !.body = reqs[i].body,
                                 !.token = reqs[i].token]]

\* the requests answered by this step
Answered == {i \in Slots : reqs[i] # reqs'[i] /\ reqs'[i].pc = "done"}

\* the requests that arrive in this step
Arrived == {i \in Slots : reqs[i].pc = "done" /\ reqs[i] # reqs'[i]}

\* the requests whose user.save() is executed by this step
Saved == {i \in Slots : reqs[i].pc = "saveUser" /\ reqs'[i].pc = "createHistory"}

\* the books the clients keep: requests sent, check-ins answered 201, requests
\* of another kind sent, requests answered 500, points credited to the stored
\* balance by check-ins and place redemptions, points of the redemptions
\* answered 200, tokens sent to POST /logout
Observe ==
  tally' =
    [received |-> tally.received + Cardinality(Arrived),
     checkins |-> tally.checkins + Cardinality(
        {i \in Answered : reqs'[i].kind = "checkin" /\ reqs'[i].resp.status = 201}),
     others   |-> tally.others + Cardinality({i \in Arrived : reqs'[i].kind # "checkin"}),
     errors   |-> tally.errors + Cardinality({i \in Answered : reqs'[i].resp.status = 500}),
     credited |-> tally.credited
        + (IF \E i \in Saved : reqs[i].kind = "checkin" THEN CheckinPoints ELSE 0)
        + (IF \E i \in Saved : reqs[i].kind = "placeRedeem"
             THEN reqs[CHOOSE i \in Saved : TRUE].place.redemption.pointsCost ELSE 0),
     spent    |-> tally.spent
        + (IF \E i \in Answered : reqs'[i].kind = "redeem" /\ reqs'[i].resp.status = 200
             THEN reqs'[CHOOSE i \in Answered : TRUE].resp.data.pointsCost ELSE 0),
     loggedOut |-> tally.loggedOut \cup
        {reqs'[i].token : i \in {j \in Arrived : /\ reqs'[j].kind = "logout"
                                                  /\ reqs'[j].token # NoToken}}]

\* no token is ever found on the blacklist
isTokenBlacklistedNever(token) == FALSE

\* blacklistedTokens.has(token)
isTokenBlacklisted(token) == token \in blacklistedTokens

\* blacklistToken(token): a non-empty string is added to the Set
blacklistToken(token) ==
  IF token # NoToken THEN blacklistedTokens \cup {token} ELSE blacklistedTokens

Unauthorized == Response(401, "Invalid token. User not found.", <<>>)

\* auth middleware: no token, a blacklisted token, User.findById(decoded.id)
\* finding no user: the 401 it answers, NoResp when it calls next()
AuthGate(token) ==
  IF token = NoToken THEN Response(401, "Access denied. No token provided.", <<>>)
  ELSE IF isTokenBlacklisted(token) THEN Response(401, "Token invalidated.", <<>>)
  ELSE IF ~FindById(users, token.id).exists THEN Unauthorized
  ELSE NoResp

\* auth lets the request of the first session of a user through
Auth(uid) == AuthGate(Token(uid, 1)) = NoResp

\* a request with the header Authorization: Bearer <token> arrives at a route
\* behind auth while fewer than limit requests are being processed
ReceiveWith(token, kind, target, coordinates, pc, limit) ==
  /\ tally.received < MaxRequests
  /\ Cardinality(InFlight) < limit
  /\ reqs' = [reqs EXCEPT ![Min(Slots \ InFlight)] =
        IF AuthGate(token) = NoResp
          THEN [NewRequest(kind, token.id, target, coordinates, pc)
                  EXCEPT !.token = token]
          ELSE [NewRequest(kind, token.id, target, coordinates, "done")
                  EXCEPT !.token = token, !.resp = AuthGate(token)]]
  /\ UNCHANGED <<now, users, places, rewards, checkins, history>>
  /\ UNCHANGED blacklistedTokens
  /\ Observe

\* a request of the first session of a user arrives
Receive(kind, uid, target, coordinates, pc, limit) ==
  ReceiveWith(Token(uid, 1), kind, target, coordinates, pc, limit)

---------------------------------------------------------------------------
(* POST /api/checkins *)

\* the upper end of the band is left out
TooFarAtTwenty(distance) == distance >= MaxDistance * Scale

\* if (distance > 20)
TooFar(distance) == distance > MaxDistance * Scale

\* the lower end of the band is left out
TooCloseAtTen(distance) == distance <= MinDistance * Scale

\* if (distance < 10)
TooClose(distance) == distance < MinDistance * Scale

\* Math.round(distance), in metres
Round(distance) == (2 * distance + Scale) \div (2 * Scale)

\* positions around the two ends of the band: 9.9999 m, 10 m, 10.0001 m,
\* 20 m and 20.0001 m north of the first place
BoundaryPositions ==
  {MinDistance * Scale - 1, MinDistance * Scale, MinDistance * Scale + 1,
   MaxDistance * Scale, MaxDistance * Scale + 1}

\* a position 15 m from either place
MidPosition == 15 * Scale

\* auth, validateCheckin (well-formed coordinates pass)
CheckinReceive(pids, positions, limit) ==
  \E uid \in UserIds, pid \in pids, y \in positions :
     Receive("checkin", uid, pid, <<0, y>>, "findPlace", limit)

\* const place = await Place.findById(placeId); the distance checks;
\* today and tomorrow
CheckinFindPlace(i) ==
  /\ reqs[i].kind = "checkin" /\ reqs[i].pc = "findPlace"
  /\ LET place == FindById(places, reqs[i].target)
         lng == reqs[i].coordinates[1]
         lat == reqs[i].coordinates[2]
         distance == calculateDistance(lat, lng, place.location[2], place.location[1])
     IN  reqs' =
           IF ~place.exists
             THEN Reply(i, Response(404, "Place not found", <<>>))
           ELSE IF TooFar(distance)
             THEN Reply(i, Response(400, "Too far from place", [distance |-> Round(distance)]))
           ELSE IF TooClose(distance)
             THEN Reply(i, Response(400, "Too close to place", [distance |-> Round(distance)]))
           ELSE [reqs EXCEPT ![i].pc = "findCheckin", ![i].place = place,
                             ![i].distance = distance,
                             ![i].today = StartOfDay(now)]
  /\ UNCHANGED <<now, users, places, rewards, checkins, history>>
  /\ UNCHANGED blacklistedTokens
  /\ Observe

\* a check-in that is turned down as a duplicate is put on record all the same
CheckinFindExistingRecords(i) ==
  /\ reqs[i].kind = "checkin" /\ reqs[i].pc = "findCheckin"
  /\ IF CheckinExists(reqs[i].userId, reqs[i].place.id, reqs[i].today, NextDay(reqs[i].today))
       THEN /\ reqs' = Reply(i, Response(409, "Already checked in at this place today", <<>>))
            /\ checkins' = Append(checkins,
                  [userId |-> reqs[i].userId, placeId |-> reqs[i].place.id,
                   coordinates |-> reqs[i].coordinates, timestamp |-> now])
       ELSE /\ reqs' = [reqs EXCEPT ![i].pc = "createCheckin", ![i].timestamp = now]
            /\ UNCHANGED checkins
  /\ UNCHANGED <<now, users, places, rewards, history>>
  /\ UNCHANGED blacklistedTokens
  /\ Observe

\* const existingCheckin = await Checkin.findOne(...); 409, or the new
\* record is built with timestamp: new Date()
CheckinFindExisting(i) ==
  /\ reqs[i].kind = "checkin" /\ reqs[i].pc = "findCheckin"
  /\ reqs' =
       IF CheckinExists(reqs[i].userId, reqs[i].place.id, reqs[i].today, NextDay(reqs[i].today))
         THEN Reply(i, Response(409, "Already checked in at this place today", <<>>))
         ELSE [reqs EXCEPT ![i].pc = "createCheckin", ![i].timestamp = now]
  /\ UNCHANGED <<now, users, places, rewards, checkins, history>>
  /\ UNCHANGED blacklistedTokens
  /\ Observe

\* const checkin = await Checkin.create({...})
CheckinCreate(i) ==
  /\ reqs[i].kind = "checkin" /\ reqs[i].pc = "createCheckin"
  /\ checkins' = Append(checkins,
        [userId |-> reqs[i].userId, placeId |-> reqs[i].place.id,
         coordinates |-> reqs[i].coordinates, timestamp |-> reqs[i].timestamp])
  /\ reqs' = [reqs EXCEPT ![i].pc = "findUser"]
  /\ UNCHANGED <<now, users, places, rewards, history>>
  /\ UNCHANGED blacklistedTokens
  /\ Observe

\* const user = await User.findById(req.user.id);
\* user.rewardPoints.total += pointsAwarded (a TypeError when user is null)
CheckinFindUser(i) ==
  /\ reqs[i].kind = "checkin" /\ reqs[i].pc = "findUser"
  /\ LET user == FindById(users, reqs[i].userId)
     IN  reqs' =
           IF ~user.exists
             THEN Reply(i, ServerError)
             ELSE [reqs EXCEPT ![i].pc = "saveUser",
                               ![i].user = [user EXCEPT !.total = @ + CheckinPoints]]
  /\ UNCHANGED <<now, users, places, rewards, checkins, history>>
  /\ UNCHANGED blacklistedTokens
  /\ Observe

\* await user.save()
CheckinSaveUser(i) ==
  /\ reqs[i].kind = "checkin" /\ reqs[i].pc = "saveUser"
  /\ LET uid == reqs[i].userId
     IN  IF SaveAccepted(uid, reqs[i].user.total)
           THEN /\ users' = [users EXCEPT ![uid] = SaveUser(@, reqs[i].user.total, <<>>)]
                /\ reqs' = [reqs EXCEPT ![i].pc = "createHistory"]
           ELSE /\ reqs' = Reply(i, ServerError)
                /\ UNCHANGED users
  /\ UNCHANGED <<now, places, rewards, checkins, history>>
  /\ UNCHANGED blacklistedTokens
  /\ Observe

\* await RewardHistory.create({...}); return res.status(201)
CheckinLogHistory(i) ==
  /\ reqs[i].kind = "checkin" /\ reqs[i].pc = "createHistory"
  /\ history' = Append(history,
        HistoryEntry(reqs[i].userId, CheckinPoints, "Check-in at", reqs[i].place.name))
  /\ reqs' = Reply(i, Response(201, "Check-in successful! Points awarded.",
        [place |-> reqs[i].place.id, distance |-> Round(reqs[i].distance),
         awarded |-> CheckinPoints, total |-> reqs[i].user.total,
         timestamp |-> reqs[i].timestamp]))
  /\ UNCHANGED <<now, users, places, rewards, checkins>>
  /\ UNCHANGED blacklistedTokens
  /\ Observe

---------------------------------------------------------------------------
(* POST /api/rewards/:id/redeem *)

\* if (reward.validUntil && new Date() > reward.validUntil)
Expired(reward, t) == reward.validUntil # NoDate /\ t > reward.validUntil

\* the balance check tests for an empty balance only
InsufficientWhenEmpty(total, pointsCost) == total <= 0

\* if (user.rewardPoints.total < reward.pointsCost)
Insufficient(total, pointsCost) == total < pointsCost

\* the expiry is tested before the isActive flag
RewardGateExpiryFirst(reward, t) ==
  IF ~reward.exists THEN Response(404, "Reward not found", <<>>)
  ELSE IF Expired(reward, t) THEN Response(400, "Reward has expired", <<>>)
  ELSE IF ~reward.isActive THEN Response(400, "Reward is not available", <<>>)
  ELSE NoResp

\* the checks on the reward, in the order of the handler: the response of the
\* first one that fails, NoResp when all pass
RewardGate(reward, t) ==
  IF ~reward.exists THEN Response(404, "Reward not found", <<>>)
  ELSE IF ~reward.isActive THEN Response(400, "Reward is not available", <<>>)
  ELSE IF Expired(reward, t) THEN Response(400, "Reward has expired", <<>>)
  ELSE NoResp

\* a reward the user holds already is refused
UserGateOnce(user, reward) ==
  IF ~user.exists THEN Response(404, "User not found", <<>>)
  ELSE IF Insufficient(user.total, reward.pointsCost)
            \/ \E k \in 1..Len(user.rewards) : user.rewards[k].name = reward.name
    THEN Response(400, "Insufficient points",
                  [need |-> reward.pointsCost, have |-> user.total])
  ELSE NoResp

\* the checks on the user, in the order of the handler
UserGate(user, reward) ==
  IF ~user.exists THEN Response(404, "User not found", <<>>)
  ELSE IF Insufficient(user.total, reward.pointsCost)
    THEN Response(400, "Insufficient points",
                  [need |-> reward.pointsCost, have |-> user.total])
  ELSE NoResp

\* { name, shortDescription, pointsCost, redeemedAt: new Date() }
Snapshot(reward, t) ==
  [name |-> reward.name, shortDescription |-> reward.shortDescription,
   pointsCost |-> reward.pointsCost, redeemedAt |-> t]

\* auth, validateObjectId
RedeemReceive(rids, limit) ==
  \E uid \in UserIds, rid \in rids :
     Receive("redeem", uid, rid, <<>>, "findReward", limit)

\* const reward = await Reward.findById(req.params.id); 404, 400, 400
RedeemFindReward(i) ==
  /\ reqs[i].kind = "redeem" /\ reqs[i].pc = "findReward"
  /\ LET reward == FindById(rewards, reqs[i].target)
     IN  reqs' =
           IF RewardGate(reward, now) # NoResp
             THEN Reply(i, RewardGate(reward, now))
             ELSE [reqs EXCEPT ![i].pc = "findUser", ![i].reward = reward, ![i].at = now]
  /\ UNCHANGED <<now, users, places, rewards, checkins, history>>
  /\ UNCHANGED blacklistedTokens
  /\ Observe

\* const user = await User.findById(req.user.id); 404, 400; the points are
\* deducted and the snapshot is pushed on the local document
RedeemFindUser(i) ==
  /\ reqs[i].kind = "redeem" /\ reqs[i].pc = "findUser"
  /\ LET user == FindById(users, reqs[i].userId)
         reward == reqs[i].reward
     IN  reqs' =
           IF UserGate(user, reward) # NoResp
             THEN Reply(i, UserGate(user, reward))
             ELSE [reqs EXCEPT ![i].pc = "saveUser",
                               ![i].user = [user EXCEPT !.total = @ - reward.pointsCost,
                                                        !.rewards = <<Snapshot(reward, now)>>]]
  /\ UNCHANGED <<now, users, places, rewards, checkins, history>>
  /\ UNCHANGED blacklistedTokens
  /\ Observe

\* a reward is taken out of the catalog when it is redeemed
RedeemSaveUserRetire(i) ==
  /\ reqs[i].kind = "redeem" /\ reqs[i].pc = "saveUser"
  /\ LET uid == reqs[i].userId
     IN  IF SaveAccepted(uid, reqs[i].user.total)
           THEN /\ users' = [users EXCEPT
                               ![uid] = SaveUser(@, reqs[i].user.total, reqs[i].user.rewards)]
                /\ rewards' = [rewards EXCEPT ![reqs[i].target].isActive = FALSE]
                /\ reqs' = [reqs EXCEPT ![i].pc = "createHistory"]
           ELSE /\ reqs' = Reply(i, ServerError)
                /\ UNCHANGED <<users, rewards>>
  /\ UNCHANGED <<now, places, checkins, history>>
  /\ UNCHANGED blacklistedTokens
  /\ Observe

\* the snapshot is written and the debited total is not
RedeemSaveUserSnapshotOnly(i) ==
  /\ reqs[i].kind = "redeem" /\ reqs[i].pc = "saveUser"
  /\ LET uid == reqs[i].userId
     IN  IF SaveAccepted(uid, reqs[i].user.total)
           THEN /\ users' = [users EXCEPT ![uid].rewards = @ \o reqs[i].user.rewards]
                /\ reqs' = [reqs EXCEPT ![i].pc = "createHistory"]
           ELSE /\ reqs' = Reply(i, ServerError)
                /\ UNCHANGED users
  /\ UNCHANGED <<now, places, rewards, checkins, history>>
  /\ UNCHANGED blacklistedTokens
  /\ Observe

\* await user.save()
RedeemSaveUser(i) ==
  /\ reqs[i].kind = "redeem" /\ reqs[i].pc = "saveUser"
  /\ LET uid == reqs[i].userId
     IN  IF SaveAccepted(uid, reqs[i].user.total)
           THEN /\ users' = [users EXCEPT
                               ![uid] = SaveUser(@, reqs[i].user.total, reqs[i].user.rewards)]
                /\ reqs' = [reqs EXCEPT ![i].pc = "createHistory"]
           ELSE /\ reqs' = Reply(i, ServerError)
                /\ UNCHANGED users
  /\ UNCHANGED <<now, places, rewards, checkins, history>>
  /\ UNCHANGED blacklistedTokens
  /\ Observe

\* await RewardHistory.create({ amount: -reward.pointsCost, ... }); return res.json
RedeemLogHistory(i) ==
  /\ reqs[i].kind = "redeem" /\ reqs[i].pc = "createHistory"
  /\ history' = Append(history,
        HistoryEntry(reqs[i].userId, -reqs[i].reward.pointsCost,
                     "Redeemed reward:", reqs[i].reward.name))
  /\ reqs' = Reply(i, Response(200, "Reward redeemed successfully!",
        [reward |-> reqs[i].reward.id, pointsCost |-> reqs[i].reward.pointsCost,
         remainingPoints |-> reqs[i].user.total]))
  /\ UNCHANGED <<now, users, places, rewards, checkins>>
  /\ UNCHANGED blacklistedTokens
  /\ Observe

---------------------------------------------------------------------------
(* POST /api/places/:id/redeem *)

\* the eligible flag is not looked at
EligibilityIgnored(place) == FALSE

\* if (!place.redemption || !place.redemption.eligible)
NotEligible(place) == ~place.redemption.eligible

\* auth, validateObjectId
PlaceRedeemReceive(pids, limit) ==
  \E uid \in UserIds, pid \in pids :
     Receive("placeRedeem", uid, pid, <<>>, "findPlace", limit)

\* a place is redeemed once a day: a second request of the day is answered 409
PlaceRedeemFindPlaceOnce(i) ==
  /\ reqs[i].kind = "placeRedeem" /\ reqs[i].pc = "findPlace"
  /\ LET place == FindById(places, reqs[i].target)
     IN  reqs' =
           IF ~place.exists
             THEN Reply(i, Response(404, "Place not found", <<>>))
           ELSE IF NotEligible(place)
             THEN Reply(i, Response(400, "Place not eligible for redemption", <<>>))
           ELSE IF \E k \in 1..Len(history) :
                      /\ history[k].userId = reqs[i].userId
                      /\ history[k].reason = <<"Redeemed at", place.name>>
                      /\ history[k].timestamp >= StartOfDay(now)
             THEN Reply(i, Response(409, "Already redeemed at this place today", <<>>))
           ELSE [reqs EXCEPT ![i].pc = "findUser", ![i].place = place]
  /\ UNCHANGED <<now, users, places, rewards, checkins, history>>
  /\ UNCHANGED blacklistedTokens
  /\ Observe

\* const place = await Place.findById(req.params.id); 404, 400
PlaceRedeemFindPlace(i) ==
  /\ reqs[i].kind = "placeRedeem" /\ reqs[i].pc = "findPlace"
  /\ LET place == FindById(places, reqs[i].target)
     IN  reqs' =
           IF ~place.exists
             THEN Reply(i, Response(404, "Place not found", <<>>))
           ELSE IF NotEligible(place)
             THEN Reply(i, Response(400, "Place not eligible for redemption", <<>>))
           ELSE [reqs EXCEPT ![i].pc = "findUser", ![i].place = place]
  /\ UNCHANGED <<now, users, places, rewards, checkins, history>>
  /\ UNCHANGED blacklistedTokens
  /\ Observe

\* const user = await User.findById(req.user.id); 404;
\* user.rewardPoints.total += pointsAwarded
PlaceRedeemFindUser(i) ==
  /\ reqs[i].kind = "placeRedeem" /\ reqs[i].pc = "findUser"
  /\ LET user == FindById(users, reqs[i].userId)
     IN  reqs' =
           IF ~user.exists
             THEN Reply(i, Response(404, "User not found", <<>>))
             ELSE [reqs EXCEPT ![i].pc = "saveUser",
                               ![i].user = [user EXCEPT
                                   !.total = @ + reqs[i].place.redemption.pointsCost]]
  /\ UNCHANGED <<now, users, places, rewards, checkins, history>>
  /\ UNCHANGED blacklistedTokens
  /\ Observe

\* await user.save()
PlaceRedeemSaveUser(i) ==
  /\ reqs[i].kind = "placeRedeem" /\ reqs[i].pc = "saveUser"
  /\ LET uid == reqs[i].userId
     IN  IF SaveAccepted(uid, reqs[i].user.total)
           THEN /\ users' = [users EXCEPT ![uid] = SaveUser(@, reqs[i].user.total, <<>>)]
                /\ reqs' = [reqs EXCEPT ![i].pc = "createHistory"]
           ELSE /\ reqs' = Reply(i, ServerError)
                /\ UNCHANGED users
  /\ UNCHANGED <<now, places, rewards, checkins, history>>
  /\ UNCHANGED blacklistedTokens
  /\ Observe

\* await RewardHistory.create({ amount: pointsAwarded, ... }); return res.json
PlaceRedeemLogHistory(i) ==
  /\ reqs[i].kind = "placeRedeem" /\ reqs[i].pc = "createHistory"
  /\ history' = Append(history,
        HistoryEntry(reqs[i].userId, reqs[i].place.redemption.pointsCost,
                     "Redeemed at", reqs[i].place.name))
  /\ reqs' = Reply(i, Response(200, "Redemption successful! Points awarded.",
        [pointsAwarded |-> reqs[i].place.redemption.pointsCost,
         totalPoints |-> reqs[i].user.total]))
  /\ UNCHANGED <<now, users, places, rewards, checkins>>
  /\ UNCHANGED blacklistedTokens
  /\ Observe

---------------------------------------------------------------------------
(* The account routes: /api/auth, /api/users and the bookmarks of a place *)

\* the account that POST /register creates
NewUserIds == {"u2"}

\* bodies of PUT /profile: a first name, alone or with a points total
ProfileBodies == {[firstName |-> "Bea"], [firstName |-> "Bea", total |-> 1000]}

CanReceive(limit) == tally.received < MaxRequests /\ Cardinality(InFlight) < limit

\* a request of a route without auth, answered by the step in which it arrives
Served(kind, uid, target, response) ==
  [reqs EXCEPT ![Min(Slots \ InFlight)] =
     [NewRequest(kind, uid, target, <<>>, "done") EXCEPT !.resp = response]]

\* POST /register: User.findOne (409), User.create with rewardPoints: { total: 0 }
Register(ids, limit) ==
  \E id \in ids :
     /\ CanReceive(limit)
     /\ IF id \in DOMAIN users
          THEN /\ reqs' = Served("register", id, id, Response(409, "User already exists", <<>>))
               /\ UNCHANGED users
          ELSE /\ users' = (id :> NewUser(id)) @@ users
               /\ reqs' = Served("register", id, id,
                     Response(201, "User created successfully",
                              [id |-> id, rewardPoints |-> NewUser(id).total]))
     /\ UNCHANGED <<now, places, rewards, checkins, history>>
     /\ UNCHANGED blacklistedTokens
     /\ Observe

\* POST /login: User.findOne by username (401), comparePassword (401), 200
\* with the user's rewardPoints
Login(ids, limit) ==
  \E id \in ids, isValidPassword \in BOOLEAN :
     /\ CanReceive(limit)
     /\ reqs' = Served("login", id, id,
          IF ~FindById(users, id).exists \/ ~isValidPassword
            THEN Response(401, "Invalid credentials", <<>>)
            ELSE Response(200, "Login successful",
                          [id |-> id, rewardPoints |-> users[id].total]))
     /\ UNCHANGED <<now, users, places, rewards, checkins, history>>
     /\ UNCHANGED blacklistedTokens
     /\ Observe

\* POST /logout: 400 without a token; the token is put on the blacklist, no
\* collection is written
Logout(tokens, limit) ==
  \E token \in tokens :
     /\ CanReceive(limit)
     /\ reqs' = [reqs EXCEPT ![Min(Slots \ InFlight)] =
          [NewRequest("logout", token.id, token.id, <<>>, "done") EXCEPT
             !.token = token,
             !.resp = IF token = NoToken THEN Response(400, "No token to logout", <<>>)
                                         ELSE Response(200, "Logged out", <<>>)]]
     /\ blacklistedTokens' = blacklistToken(token)
     /\ UNCHANGED <<now, users, places, rewards, checkins, history>>
     /\ Observe

\* POST /make-admin/:id: User.findByIdAndUpdate(id, { $set: { role: 'admin' } })
MakeAdmin(ids, limit) ==
  \E id \in ids :
     /\ CanReceive(limit)
     /\ IF FindById(users, id).exists
          THEN /\ users' = [users EXCEPT ![id].role = "admin"]
               /\ reqs' = Served("makeAdmin", id, id,
                     Response(200, "User promoted to admin", [role |-> "admin"]))
          ELSE /\ reqs' = Served("makeAdmin", id, id, Response(404, "User not found", <<>>))
               /\ UNCHANGED users
     /\ UNCHANGED <<now, places, rewards, checkins, history>>
     /\ UNCHANGED blacklistedTokens
     /\ Observe

\* .limit(3)
LeaderboardLimit == 3

\* the documents of User.find({})
AllUsers == {u \in DOMAIN users : users[u].exists}

\* .sort({ 'rewardPoints.total': -1 }).limit(n): the lists the query can
\* return, users of equal balance in any order
Top(n) ==
  LET k == Min({n, Cardinality(AllUsers)})
  IN  {top \in [1..k -> AllUsers] :
         /\ \A a, b \in 1..k :
               a < b => top[a] # top[b] /\ users[top[a]].total >= users[top[b]].total
         /\ \A a \in 1..k, u \in AllUsers \ {top[b] : b \in 1..k} :
               users[top[a]].total >= users[u].total}

\* GET /leaderboard
Leaderboard(limit) ==
  \E top \in Top(LeaderboardLimit) :
     /\ CanReceive(limit)
     /\ reqs' = Served("leaderboard", "none", "none",
           Response(200, "", [k \in DOMAIN top |->
                                [id |-> top[k], total |-> users[top[k]].total]]))
     /\ UNCHANGED <<now, users, places, rewards, checkins, history>>
     /\ UNCHANGED blacklistedTokens
     /\ Observe

\* the whole body is written to the document
UpdatesWholeBody(body) == body

\* const updates = {}: only the profile and login fields of the body are taken
Updates(body) == [f \in DOMAIN body \cap {"firstName"} |-> body[f]]

\* { $set: updates }
SetFields(doc, updates) ==
  [f \in DOMAIN doc |-> IF f \in DOMAIN updates THEN updates[f] ELSE doc[f]]

\* PUT /profile: auth
ProfileReceive(limit) ==
  \E uid \in UserIds, body \in ProfileBodies :
     /\ CanReceive(limit)
     /\ reqs' = [reqs EXCEPT ![Min(Slots \ InFlight)] =
          IF Auth(uid)
            THEN [NewRequest("profile", uid, uid, <<>>, "update")
                    EXCEPT !.body = body, !.token = Token(uid, 1)]
            ELSE [NewRequest("profile", uid, uid, <<>>, "done")
                    EXCEPT !.body = body, !.token = Token(uid, 1),
                           !.resp = AuthGate(Token(uid, 1))]]
     /\ UNCHANGED <<now, users, places, rewards, checkins, history>>
     /\ UNCHANGED blacklistedTokens
     /\ Observe

\* const updated = await User.findByIdAndUpdate(req.user.id, { $set: updates }); 404
ProfileUpdate(i) ==
  /\ reqs[i].kind = "profile" /\ reqs[i].pc = "update"
  /\ LET uid == reqs[i].userId
     IN  IF FindById(users, uid).exists
           THEN /\ users' = [users EXCEPT ![uid] = SetFields(@, Updates(reqs[i].body))]
                /\ reqs' = Reply(i, Response(200, "Profile updated",
                                 SetFields(users[uid], Updates(reqs[i].body))))
           ELSE /\ reqs' = Reply(i, Response(404, "User not found", <<>>))
                /\ UNCHANGED users
  /\ UNCHANGED <<now, places, rewards, checkins, history>>
  /\ UNCHANGED blacklistedTokens
  /\ Observe

\* POST and DELETE /:id/bookmark, GET /points: auth
AccountReceive(kinds, targets, limit) ==
  \E kind \in kinds, uid \in UserIds, target \in targets :
     Receive(kind, uid, target, <<>>, "update", limit)

\* the id is appended whether or not the array holds it
AddToSetAlways(array, x) == Append(array, x)

\* $addToSet: the value is appended unless the array holds it already
AddToSet(array, x) ==
  IF \E k \in 1..Len(array) : array[k] = x THEN array ELSE Append(array, x)

\* $pull: every element equal to the value is taken out
Pull(array, x) == SelectSeq(array, LAMBDA y : y # x)

\* Place.findById (404); User.findByIdAndUpdate(req.user.id, { $addToSet:
\* { bookmarks: place._id } }); updated.bookmarks (a TypeError when null)
BookmarkAdd(i) ==
  /\ reqs[i].kind = "bookmark" /\ reqs[i].pc = "update"
  /\ LET uid == reqs[i].userId
         place == FindById(places, reqs[i].target)
     IN  IF ~place.exists
           THEN /\ reqs' = Reply(i, Response(404, "Place not found", <<>>))
                /\ UNCHANGED users
         ELSE IF ~FindById(users, uid).exists
           THEN /\ reqs' = Reply(i, ServerError)
                /\ UNCHANGED users
         ELSE /\ users' = [users EXCEPT ![uid].bookmarks = AddToSet(@, place.id)]
              /\ reqs' = Reply(i, Response(200, "Bookmarked",
                               AddToSet(users[uid].bookmarks, place.id)))
  /\ UNCHANGED <<now, places, rewards, checkins, history>>
  /\ UNCHANGED blacklistedTokens
  /\ Observe

\* User.findByIdAndUpdate(req.user.id, { $pull: { bookmarks: req.params.id } });
\* updated.bookmarks (a TypeError when null)
BookmarkRemove(i) ==
  /\ reqs[i].kind = "unbookmark" /\ reqs[i].pc = "update"
  /\ LET uid == reqs[i].userId
     IN  IF ~FindById(users, uid).exists
           THEN /\ reqs' = Reply(i, ServerError)
                /\ UNCHANGED users
           ELSE /\ users' = [users EXCEPT ![uid].bookmarks = Pull(@, reqs[i].target)]
                /\ reqs' = Reply(i, Response(200, "Bookmark removed",
                                 Pull(users[uid].bookmarks, reqs[i].target)))
  /\ UNCHANGED <<now, places, rewards, checkins, history>>
  /\ UNCHANGED blacklistedTokens
  /\ Observe

\* GET /points: User.findById(req.user.id).select('rewardPoints.total'); 404
GetPoints(i) ==
  /\ reqs[i].kind = "points" /\ reqs[i].pc = "update"
  /\ LET user == FindById(users, reqs[i].userId)
     IN  reqs' = IF ~user.exists
                   THEN Reply(i, Response(404, "User not found", <<>>))
                   ELSE Reply(i, Response(200, "", [points |-> user.total]))
  /\ UNCHANGED <<now, users, places, rewards, checkins, history>>
  /\ UNCHANGED blacklistedTokens
  /\ Observe

\* req.user = { id: user._id, role: user.role || 'user' }: the _id of a
\* document is an ObjectId
ReqUser(user) == [id |-> [type |-> "ObjectId", hex |-> user.id], role |-> user.role]

\* req.params.id: a string of the path
Param(id) == [type |-> "string", hex |-> id]

\* a !== b: values of different types are never equal, two objects only when
\* they are the same object
StrictNotEqual(a, b) == a.type # b.type \/ a.type = "ObjectId" \/ a.hex # b.hex

\* if (req.user.id !== req.params.id && req.user.role !== 'admin')
AccessDenied(user, id) == StrictNotEqual(user.id, id) /\ user.role # "admin"

\* GET /:id/rewards: auth, validateObjectId, then the 403 of the handler
RewardsReceive(targets, limit) ==
  \E uid \in UserIds, target \in targets :
     /\ CanReceive(limit)
     /\ LET request == [NewRequest("rewards", uid, target, <<>>, "done")
                          EXCEPT !.token = Token(uid, 1)]
        IN  reqs' = [reqs EXCEPT ![Min(Slots \ InFlight)] =
              IF ~Auth(uid)
                THEN [request EXCEPT !.resp = AuthGate(Token(uid, 1))]
              ELSE IF AccessDenied(ReqUser(users[uid]), Param(target))
                THEN [request EXCEPT !.resp =
                        Response(403, "Access denied. You can only view your own rewards.", <<>>)]
              ELSE [request EXCEPT !.pc = "update"]]
     /\ UNCHANGED <<now, users, places, rewards, checkins, history>>
     /\ UNCHANGED blacklistedTokens
     /\ Observe

\* GET /:id/rewards: User.findById(req.params.id) (404), RewardHistory.find,
\* countDocuments
GetRewards(i) ==
  /\ reqs[i].kind = "rewards" /\ reqs[i].pc = "update"
  /\ LET user == FindById(users, reqs[i].target)
     IN  reqs' = IF ~user.exists
                   THEN Reply(i, Response(404, "User not found", <<>>))
                   ELSE Reply(i, Response(200, "Reward data retrieved successfully",
                          [totalPoints |-> user.total,
                           totalItems |-> Cardinality({k \in 1..Len(history) :
                                                          history[k].userId = user.id})]))
  /\ UNCHANGED <<now, users, places, rewards, checkins, history>>
  /\ UNCHANGED blacklistedTokens
  /\ Observe

---------------------------------------------------------------------------
(* The body of a check-in: sanitizeRequestBody, then validateCheckin *)

\* JSON values.  A number is a whole count of degrees plus an arc of less
\* than one degree, in units of 1/Scale metre; a string carries the number
\* parseFloat reads from it (NaN when it reads none).
NaN == [type |-> "NaN"]
Undefined == [type |-> "undefined"]
JsonNull == [type |-> "null"]
Number(degrees, arc) == [type |-> "number", degrees |-> degrees, arc |-> arc]
String(number) == [type |-> "string", number |-> number]
Array(items) == [type |-> "array", items |-> items]
ObjectId(id) == [type |-> "string", number |-> NaN, id |-> id]

\* R * Math.PI / 180 with R = 6371e3: the metres of one degree of latitude
MetresPerDegree == 111195

\* parseFloat(x)
parseFloat(x) ==
  CASE x.type = "number" -> x
    [] x.type = "string" -> x.number
    [] OTHER -> NaN

\* if (x): undefined, null, NaN and 0 are falsy (the strings of the model
\* are not empty)
Truthy(x) ==
  /\ x.type \notin {"undefined", "null", "NaN"}
  /\ x.type = "number" => ~(x.degrees = 0 /\ x.arc = 0)

\* x || 0
OrZero(x) == IF Truthy(x) THEN x ELSE Number(0, 0)

\* sanitizeCoordinates(coords)
sanitizeCoordinates(coords) ==
  IF coords.type # "array" \/ Len(coords.items) # 2 THEN coords
  ELSE Array(<<OrZero(parseFloat(coords.items[1])), OrZero(parseFloat(coords.items[2]))>>)

\* sanitizeRequestBody: if (req.body.coordinates) req.body.coordinates = ...
sanitizeRequestBody(body) ==
  IF Truthy(body.coordinates)
    THEN [body EXCEPT !.coordinates = sanitizeCoordinates(@)]
    ELSE body

\* -max <= n <= max, in degrees
WithinDegrees(n, max) ==
  /\ n.degrees < max \/ (n.degrees = max /\ n.arc <= 0)
  /\ n.degrees > -max \/ (n.degrees = -max /\ n.arc >= 0)

\* validateCoordinates(lat, lng)
validateCoordinates(lat, lng) ==
  /\ parseFloat(lat) # NaN /\ parseFloat(lng) # NaN
  /\ WithinDegrees(parseFloat(lat), 90)
  /\ WithinDegrees(parseFloat(lng), 180)

\* validateCheckin: the 400 it answers, NoResp when it calls next()
validateCheckin(body) ==
  IF ~Truthy(body.placeId)
    THEN Response(400, "Place ID is required", <<>>)
  ELSE IF \/ ~Truthy(body.coordinates)
          \/ body.coordinates.type # "array"
          \/ Len(body.coordinates.items) # 2
    THEN Response(400, "Coordinates must be an array [longitude, latitude]", <<>>)
  ELSE IF ~validateCoordinates(body.coordinates.items[2], body.coordinates.items[1])
    THEN Response(400, "Invalid coordinates", <<>>)
  ELSE NoResp

\* the number the handler computes with, in units of 1/Scale metre
Units(x) == parseFloat(x).degrees * MetresPerDegree * Scale + parseFloat(x).arc

\* bodies of POST /api/checkins for a place: a well-formed one from 15 m
\* north of the first place, the same with the numbers sent as strings, and
\* malformed ones
CheckinBodies(pid) ==
  LET lng == Number(0, 0)
      lat == Number(0, MidPosition)
      text == String(NaN)
  IN  {[placeId |-> ObjectId(pid), coordinates |-> c] : c \in
         {Array(<<lng, lat>>),
          Array(<<String(lng), String(lat)>>),
          Undefined,
          text,
          Array(<<lat>>),
          Array(<<lng, lat, lat>>),
          Array(<<text, lat>>),
          Array(<<lng, text>>),
          Array(<<JsonNull, lat>>),
          Array(<<Number(181, 0), lat>>),
          Array(<<lng, Number(91, 0)>>)}}

\* sanitizeRequestBody (app.use), auth, validateCheckin, then the handler
\* with const { placeId, coordinates } = req.body
CheckinSubmit(pids, limit) ==
  \E uid \in UserIds, pid \in pids : \E body \in CheckinBodies(pid) :
     /\ CanReceive(limit)
     /\ LET sanitized == sanitizeRequestBody(body)
            request == [NewRequest("checkin", uid, pid, <<>>, "done")
                          EXCEPT !.body = body, !.token = Token(uid, 1)]
        IN  reqs' = [reqs EXCEPT ![Min(Slots \ InFlight)] =
              IF ~Auth(uid)
                THEN [request EXCEPT !.resp = AuthGate(Token(uid, 1))]
              ELSE IF validateCheckin(sanitized) # NoResp
                THEN [request EXCEPT !.resp = validateCheckin(sanitized)]
              ELSE [request EXCEPT
                      !.pc = "findPlace",
                      !.coordinates = <<Units(sanitized.coordinates.items[1]),
                                        Units(sanitized.coordinates.items[2])>>]]
     /\ UNCHANGED <<now, users, places, rewards, checkins, history>>
     /\ UNCHANGED blacklistedTokens
     /\ Observe

---------------------------------------------------------------------------
(* The environment *)

\* the catch block of a check-in deletes the Checkin record the request made
StoreErrorRollback(i) ==
  /\ reqs[i].pc # "done"
  /\ reqs' = Reply(i, ServerError)
  /\ checkins' =
       IF reqs[i].kind = "checkin" /\ reqs[i].pc \in {"findUser", "saveUser", "createHistory"}
         THEN SelectSeq(checkins, LAMBDA c : ~(/\ c.userId = reqs[i].userId
                                               /\ c.placeId = reqs[i].place.id
                                               /\ c.timestamp = reqs[i].timestamp))
         ELSE checkins
  /\ UNCHANGED <<now, users, places, rewards, history>>
  /\ UNCHANGED blacklistedTokens
  /\ Observe

\* an awaited store operation rejects (connection lost, timeout): the catch
\* block of the handler answers 500 and nothing is written
StoreError(i) ==
  /\ reqs[i].pc # "done"
  /\ reqs' = Reply(i, ServerError)
  /\ UNCHANGED <<now, users, places, rewards, checkins, history>>
  /\ UNCHANGED blacklistedTokens
  /\ Observe

\* the user document is deleted from the collection (no route does it; the
\* handlers and auth test for it)
UserRemoved(uid) ==
  /\ users[uid].exists
  /\ users' = [users EXCEPT ![uid].exists = FALSE]
  /\ UNCHANGED <<now, places, rewards, checkins, history, reqs>>
  /\ UNCHANGED blacklistedTokens
  /\ Observe

\* the clock advances
Tick ==
  /\ now < MaxTime
  /\ now' = now + 1
  /\ UNCHANGED <<users, places, rewards, checkins, history, reqs>>
  /\ UNCHANGED blacklistedTokens
  /\ Observe

---------------------------------------------------------------------------
(* Specifications *)

Init ==
  /\ now = 0
  /\ users = [u \in UserIds |-> NewUser(u)]
  /\ places = InitPlaces
  /\ rewards = InitRewards
  /\ checkins = <<>>
  /\ history = <<>>
  /\ reqs = [i \in Slots |-> Idle]
  /\ tally = [received |-> 0, checkins |-> 0, others |-> 0, errors |-> 0,
              credited |-> 0, spent |-> 0, loggedOut |-> {}]
  /\ blacklistedTokens = {}

\* router.post('/', auth, validateCheckin, async (req, res) => {...})
CheckinStep ==
  \E i \in Slots :
  \/ CheckinFindPlace(i)
  \/ CheckinFindExisting(i)
  \/ CheckinCreate(i)
  \/ CheckinFindUser(i)
  \/ CheckinSaveUser(i)
  \/ CheckinLogHistory(i)

\* router.post('/:id/redeem', auth, validateObjectId, async (req, res) => {...})
RedeemStep ==
  \E i \in Slots :
  \/ RedeemFindReward(i)
  \/ RedeemFindUser(i)
  \/ RedeemSaveUser(i)
  \/ RedeemLogHistory(i)

\* router.post('/:id/redeem', auth, validateObjectId, async (req, res) => {...})
PlaceRedeemStep ==
  \E i \in Slots :
  \/ PlaceRedeemFindPlace(i)
  \/ PlaceRedeemFindUser(i)
  \/ PlaceRedeemSaveUser(i)
  \/ PlaceRedeemLogHistory(i)

Failure == \E i \in Slots : StoreError(i)

Removal == \E uid \in UserIds : UserRemoved(uid)

\* Requests of one user processed concurrently, two at a time, within one
\* clock tick; store operations may fail and the user may disappear.
Next ==
  \/ CheckinReceive(PlaceIds, {MidPosition}, 2)
  \/ RedeemReceive({"r1", "r3"}, 2)
  \/ PlaceRedeemReceive({"p2"}, 2)
  \/ CheckinStep
  \/ RedeemStep
  \/ PlaceRedeemStep
  \/ Failure
  \/ Removal

Spec == Init /\ [][Next]_vars

\* Check-ins processed one at a time, from the positions around the ends of
\* the band of the first place and from inside the band of either place,
\* while the clock runs over several days; store operations may fail and the
\* user may disappear.
NextCheckin ==
  \/ CheckinReceive({"p1"}, BoundaryPositions, 1)
  \/ CheckinReceive({"p2", MissingPlaceId}, {MidPosition}, 1)
  \/ CheckinStep
  \/ Failure
  \/ Removal
  \/ Tick

SpecCheckin == Init /\ [][NextCheckin]_vars

\* Redemptions processed one at a time, for every reward and place, while
\* the clock runs; store operations may fail and the user may disappear.
NextRedeem ==
  \/ RedeemReceive(RewardIds \cup {MissingRewardId}, 1)
  \/ PlaceRedeemReceive(PlaceIds \cup {MissingPlaceId}, 1)
  \/ RedeemStep
  \/ PlaceRedeemStep
  \/ Failure
  \/ Removal
  \/ Tick

SpecRedeem == Init /\ [][NextRedeem]_vars

\* the handlers of the account routes that run behind auth
AccountStep ==
  \E i \in Slots :
  \/ ProfileUpdate(i)
  \/ BookmarkAdd(i)
  \/ BookmarkRemove(i)
  \/ GetPoints(i)
  \/ GetRewards(i)

\* The account routes next to the three flows that move points, two requests
\* at a time; store operations may fail and the user may disappear.
NextAccount ==
  \/ CheckinReceive({"p1"}, {MidPosition}, 2)
  \/ PlaceRedeemReceive({"p2"}, 2)
  \/ RedeemReceive({"r3"}, 2)
  \/ CheckinStep
  \/ PlaceRedeemStep
  \/ RedeemStep
  \/ Register(NewUserIds, 2)
  \/ Login(UserIds, 2)
  \/ Logout({Token("u1", 1), NoToken}, 2)
  \/ MakeAdmin(UserIds, 2)
  \/ Leaderboard(2)
  \/ ProfileReceive(2)
  \/ AccountReceive({"bookmark", "unbookmark"}, {"p1"}, 2)
  \/ AccountReceive({"points"}, UserIds, 2)
  \/ RewardsReceive(UserIds, 2)
  \/ AccountStep
  \/ Failure
  \/ Removal

SpecAccount == Init /\ [][NextAccount]_vars

\* Check-ins at the first place with well-formed and malformed bodies, one
\* request at a time; store operations may fail and the user may disappear.
NextValidation ==
  \/ CheckinSubmit({"p1"}, 1)
  \/ CheckinStep
  \/ Failure
  \/ Removal

SpecValidation == Init /\ [][NextValidation]_vars

\* the tokens of two sessions of the user
SessionTokens == {Token(uid, session) : uid \in UserIds, session \in {1, 2}}

\* router.get('/points', auth, async (req, res) => {...})
PointsStep == \E i \in Slots : GetPoints(i)

\* Two sessions of the user: logins, logouts, and check-ins and balance
\* queries that carry the token of a session or none, two requests at a
\* time; store operations may fail and the user may disappear.
NextSession ==
  \/ Login(UserIds, 2)
  \/ Logout(SessionTokens \cup {NoToken}, 2)
  \/ \E token \in SessionTokens \cup {NoToken} :
        ReceiveWith(token, "checkin", "p1", <<0, MidPosition>>, "findPlace", 2)
  \/ \E token \in SessionTokens \cup {NoToken} :
        ReceiveWith(token, "points", token.id, <<>>, "update", 2)
  \/ CheckinStep
  \/ PointsStep
  \/ Failure
  \/ Removal

SpecSession == Init /\ [][NextSession]_vars

\* router.get('/:id/rewards', auth, validateObjectId, async (req, res) => {...})
RewardsStep == \E i \in Slots : GetRewards(i)

\* The user, a second account and an admin promotion: the rewards of either
\* account are asked for while check-ins fill the ledger, two requests at a
\* time; store operations may fail and the user may disappear.
NextAccess ==
  \/ Register(NewUserIds, 2)
  \/ MakeAdmin(UserIds, 2)
  \/ RewardsReceive(UserIds \cup NewUserIds, 2)
  \/ RewardsStep
  \/ CheckinReceive({"p1"}, {MidPosition}, 2)
  \/ CheckinStep
  \/ Failure
  \/ Removal

SpecAccess == Init /\ [][NextAccess]_vars

\* a position 5 m and one 25 m north of the first place
OutOfBandPositions == {5 * Scale, 25 * Scale}

\* Requests of the three flows that are turned down (a missing place or
\* reward, a position out of the band, a second check-in of the day, an
\* inactive or expired reward, too few points, a place not eligible, a user
\* that is gone) next to ones that are accepted, one request at a time while
\* the clock runs; store operations may fail and the user may disappear.
NextRejections ==
  \/ CheckinReceive({"p1"}, OutOfBandPositions, 1)
  \/ CheckinReceive({"p1", MissingPlaceId}, {MidPosition}, 1)
  \/ RedeemReceive(RewardIds \cup {MissingRewardId}, 1)
  \/ PlaceRedeemReceive(PlaceIds \cup {MissingPlaceId}, 1)
  \/ CheckinStep
  \/ RedeemStep
  \/ PlaceRedeemStep
  \/ Failure
  \/ Removal
  \/ Tick

SpecRejections == Init /\ [][NextRejections]_vars

\* Check-ins, reward redemptions and place redemptions of the user from
\* registration on, one request at a time while the clock runs; no store
\* operation fails and the user document stays.
NextSequence ==
  \/ CheckinReceive(PlaceIds, {MidPosition}, 1)
  \/ RedeemReceive(RewardIds, 1)
  \/ PlaceRedeemReceive(PlaceIds, 1)
  \/ CheckinStep
  \/ RedeemStep
  \/ PlaceRedeemStep
  \/ Tick

SpecSequence == Init /\ [][NextSequence]_vars

\* router.post and router.delete('/:id/bookmark', auth, validateObjectId, ...)
BookmarkStep == \E i \in Slots : BookmarkAdd(i) \/ BookmarkRemove(i)

\* Bookmarks of either place and of a place that does not exist are added
\* and removed, two requests at a time; store operations may fail and the
\* user may disappear.
NextBookmarks ==
  \/ AccountReceive({"bookmark", "unbookmark"}, PlaceIds \cup {MissingPlaceId}, 2)
  \/ BookmarkStep
  \/ Failure
  \/ Removal

SpecBookmarks == Init /\ [][NextBookmarks]_vars

\* further accounts made by POST /register, in the order of registration
BoardUserIds == <<"u2", "u3", "u4", "u5">>

\* the user and the first few of the further accounts are registered,
\* nothing else has happened
InitLeaderboard ==
  /\ now = 0
  /\ \E n \in 0..Len(BoardUserIds) :
        users = [u \in UserIds \cup {BoardUserIds[k] : k \in 1..n} |-> NewUser(u)]
  /\ places = InitPlaces
  /\ rewards = InitRewards
  /\ checkins = <<>>
  /\ history = <<>>
  /\ reqs = [i \in Slots |-> Idle]
  /\ tally = [received |-> 0, checkins |-> 0, others |-> 0, errors |-> 0,
              credited |-> 0, spent |-> 0, loggedOut |-> {}]
  /\ blacklistedTokens = {}

\* a check-in of any registered account at the first place
BoardCheckinReceive(limit) ==
  \E uid \in DOMAIN users :
     ReceiveWith(Token(uid, 1), "checkin", "p1", <<0, MidPosition>>, "findPlace", limit)

\* Up to five accounts: check-ins of any of them and leaderboard queries, one
\* request at a time; store operations may fail and the user may disappear.
NextLeaderboard ==
  \/ Leaderboard(1)
  \/ BoardCheckinReceive(1)
  \/ CheckinStep
  \/ Failure
  \/ Removal

SpecLeaderboard == InitLeaderboard /\ [][NextLeaderboard]_vars

---------------------------------------------------------------------------
(* Properties of the ledger under concurrent requests (Spec) *)

RECURSIVE SumAmounts(_)
SumAmounts(entries) ==
  IF entries = <<>> THEN 0 ELSE Head(entries).amount + SumAmounts(Tail(entries))

Ledger(uid) == SelectSeq(history, LAMBDA e : e.userId = uid)

LedgerOf(uid, reason) == SelectSeq(history, LAMBDA e : e.userId = uid /\ e.reason[1] = reason)

CheckinsOf(uid) == SelectSeq(checkins, LAMBDA c : c.userId = uid)

Day(t) == t \div TicksPerDay

Quiescent == InFlight = {}

\* C1: in every reachable state the amounts of a user's ledger entries add up
\* to the user's stored balance.
C1_Reconciliation ==
  \A uid \in UserIds : SumAmounts(Ledger(uid)) = users[uid].total

\* C2: the points of the redemptions answered 200 never exceed the points
\* that were credited to the user.
C2_NoDoubleSpend == tally.spent <= tally.credited

\* C3: the stored balance is never negative, and a redemption goes on to
\* debit only when the balance it read covers the cost of the reward.
C3_NeverNegative ==
  /\ \A uid \in UserIds : users[uid].total >= 0
  /\ \A i \in Slots :
        reqs[i].kind = "redeem" /\ reqs[i].pc \in {"saveUser", "createHistory"}
          => reqs[i].user.total >= 0
  /\ \A i \in Slots :
        reqs[i].kind = "redeem" /\ reqs[i].pc = "done" /\ reqs[i].resp.status = 200
          => reqs[i].resp.data.remainingPoints >= 0

\* a redemption has been paid for, a later one was refused for want of points
C3_Witness ==
  \E i \in Slots, uid \in UserIds :
     /\ reqs[i].kind = "redeem" /\ reqs[i].pc = "done"
     /\ reqs[i].resp.message = "Insufficient points"
     /\ reqs[i].resp.data.have < reqs[i].resp.data.need
     /\ users[uid].rewards # <<>>
     /\ users[uid].total = reqs[i].resp.data.have

\* C4: once every request has returned, each Checkin record of a user has
\* its ledger entry (and so its credit): the three effects of a check-in
\* happened together or not at all.
C4_AtomicCheckin ==
  Quiescent =>
    \A uid \in UserIds : Len(CheckinsOf(uid)) = Len(LedgerOf(uid, "Check-in at"))

\* C7: no two Checkin records of one user for one place lie on the same
\* calendar day.
C7_OnePerDay ==
  \A i, j \in 1..Len(checkins) :
     /\ i < j
     /\ checkins[i].userId = checkins[j].userId
     /\ checkins[i].placeId = checkins[j].placeId
     => Day(checkins[i].timestamp) # Day(checkins[j].timestamp)

\* C9: when only check-ins were requested, each at another place or on
\* another day, none was answered 500 and all have returned, the balance is
\* 10 times the number of check-ins answered 201 and the ledger holds
\* exactly that many entries, each of +10.
C9_TenPerCheckin ==
  (Quiescent /\ tally.others = 0 /\ tally.errors = 0 /\ C7_OnePerDay) =>
    \A uid \in UserIds :
       /\ users[uid].total = CheckinPoints * tally.checkins
       /\ Len(Ledger(uid)) = tally.checkins
       /\ \A k \in 1..Len(Ledger(uid)) : Ledger(uid)[k].amount = CheckinPoints

---------------------------------------------------------------------------
(* Properties of the check-in gate (SpecCheckin) *)

\* the distance between the position a check-in was sent from and its place
SentFrom(i) ==
  calculateDistance(reqs[i].coordinates[2], reqs[i].coordinates[1],
                    places[reqs[i].target].location[2], places[reqs[i].target].location[1])

CheckinAt(i) == reqs[i].kind = "checkin" /\ reqs[i].target \in PlaceIds

Answer(i) == IF reqs[i].pc = "done" THEN reqs[i].resp.status ELSE 0

\* a Checkin record of the user of request i at its place, on the current day
RecordToday(i) ==
  \E k \in 1..Len(checkins) :
     /\ checkins[k].userId = reqs[i].userId
     /\ checkins[k].placeId = reqs[i].target
     /\ Day(checkins[k].timestamp) = Day(now)

\* a Checkin record made from a given distance of its place
RecordFrom(distance) ==
  \E k \in 1..Len(checkins) :
     calculateDistance(checkins[k].coordinates[2], checkins[k].coordinates[1],
                       places[checkins[k].placeId].location[2],
                       places[checkins[k].placeId].location[1]) = distance

\* a request that was turned away at the distance checks: it never got past
\* the lookup of the place, so it wrote nothing
TurnedAway(i, message) ==
  /\ reqs[i].pc \in {"findPlace", "done"}
  /\ Answer(i) \in {0, 400, 401, 500}
  /\ Answer(i) = 400 => reqs[i].resp.message = message

\* a request that passed the distance checks: it is answered 201 with 10
\* points, or 409 because of a record of the same day (401 and 500 are the
\* answers of auth and of a failed store operation)
Admitted(i) ==
  /\ Answer(i) \in {0, 201, 409, 401, 500}
  /\ Answer(i) = 201 => reqs[i].resp.data.awarded = CheckinPoints
  /\ Answer(i) = 409 => \E k \in 1..Len(checkins) :
                           /\ checkins[k].userId = reqs[i].userId
                           /\ checkins[k].placeId = reqs[i].target

\* C5 as claimed: a check-in from 10 m or less is never accepted.
C5_RejectedAtTen ==
  \A i \in Slots :
     CheckinAt(i) /\ SentFrom(i) <= MinDistance * Scale => Answer(i) # 201

\* C5 as amended: a check-in from less than 10 m is rejected with 400 (too
\* close) and awards nothing; from exactly 10 m, and from 10.0001 m, it is
\* accepted.
C5_RejectedBelowTen ==
  \A i \in Slots :
     CheckinAt(i) =>
       /\ SentFrom(i) < MinDistance * Scale => TurnedAway(i, "Too close to place")
       /\ SentFrom(i) \in {MinDistance * Scale, MinDistance * Scale + 1} => Admitted(i)

\* a check-in from 9.9999 m was answered 400 after one from exactly 10 m had
\* been recorded and credited
C5_Witness ==
  \E i \in Slots :
     /\ CheckinAt(i) /\ SentFrom(i) = MinDistance * Scale - 1 /\ Answer(i) = 400
     /\ RecordFrom(MinDistance * Scale)
     /\ users[reqs[i].userId].total >= CheckinPoints

\* C6: a check-in from more than 20 m is rejected with 400 (too far) and
\* awards nothing; from exactly 20 m it is accepted.
C6_AcceptedAtTwenty ==
  \A i \in Slots :
     CheckinAt(i) =>
       /\ SentFrom(i) > MaxDistance * Scale => TurnedAway(i, "Too far from place")
       /\ SentFrom(i) = MaxDistance * Scale => Admitted(i)

\* a check-in from 20.0001 m was answered 400 after one from exactly 20 m had
\* been recorded and credited
C6_Witness ==
  \E i \in Slots :
     /\ CheckinAt(i) /\ SentFrom(i) = MaxDistance * Scale + 1 /\ Answer(i) = 400
     /\ RecordFrom(MaxDistance * Scale)
     /\ users[reqs[i].userId].total >= CheckinPoints

InBand(distance) == MinDistance * Scale <= distance /\ distance <= MaxDistance * Scale

\* a check-in that was not accepted although the user has a record at the
\* place today (sequential requests: the record was there when it arrived)
Repeated(i) ==
  CheckinAt(i) /\ reqs[i].pc = "done" /\ Answer(i) # 201 /\ RecordToday(i) /\ tally.errors = 0

\* C8 as claimed: a further check-in on the day of an accepted one is answered
\* 409 whatever its distance.
C8_ConflictAtAnyDistance ==
  \A i \in Slots : Repeated(i) => Answer(i) \in {409, 401}

\* C8 as amended: a further check-in on the day of an accepted one is never
\* accepted and adds no record; it is answered 409 when its distance is
\* within the band and 400 when it is outside.
C8_ConflictInBand ==
  /\ C7_OnePerDay
  /\ \A i \in Slots :
        CheckinAt(i) /\ reqs[i].pc = "done" /\ RecordToday(i) =>
          /\ Answer(i) = 201 =>
               \E k \in 1..Len(checkins) :
                  /\ checkins[k].userId = reqs[i].userId
                  /\ checkins[k].placeId = reqs[i].target
                  /\ checkins[k].timestamp = reqs[i].resp.data.timestamp
          /\ Answer(i) # 201 =>
               IF InBand(SentFrom(i)) THEN Answer(i) \in {409, 401, 500}
                                      ELSE Answer(i) \in {400, 401, 500}

\* a repeated check-in from outside the band was answered 400
C8_Witness ==
  \E i \in Slots :
     Repeated(i) /\ ~InBand(SentFrom(i)) /\ Answer(i) = 400 /\ tally.checkins >= 1

---------------------------------------------------------------------------
(* Properties of the redemption gate (SpecRedeem) *)

\* what the order reward missing, not active, expired, user missing,
\* insufficient points yields for request i in the current state; the expiry
\* is the one the handler saw when it looked the reward up
FirstFailure(i) ==
  LET reward == FindById(rewards, reqs[i].target)
      user == FindById(users, reqs[i].userId)
      t == IF reqs[i].pc = "findReward" THEN now ELSE reqs[i].at
  IN  IF ~reward.exists THEN [status |-> 404, message |-> "Reward not found"]
      ELSE IF ~reward.isActive THEN [status |-> 400, message |-> "Reward is not available"]
      ELSE IF reward.validUntil # NoDate /\ t > reward.validUntil
        THEN [status |-> 400, message |-> "Reward has expired"]
      ELSE IF ~user.exists THEN [status |-> 404, message |-> "User not found"]
      ELSE IF user.total < reward.pointsCost
        THEN [status |-> 400, message |-> "Insufficient points",
              need |-> reward.pointsCost, have |-> user.total]
      ELSE [status |-> 200, message |-> "none"]

\* C10: a redemption is answered by the first of its failing preconditions,
\* in the order reward missing (404), not active (400), expired (400), user
\* missing (404), insufficient points (400 with the required and the
\* available amount); it goes on only when none fails.
C10_FirstFailureWins ==
  [][\A i \in Slots :
       (reqs[i].kind = "redeem" /\ reqs[i].pc \in {"findReward", "findUser"}
          /\ reqs'[i] # reqs[i]
          /\ ~(reqs'[i].pc = "done" /\ reqs'[i].resp.status = 500))
       => IF reqs'[i].pc = "done"
            THEN /\ reqs'[i].resp.status = FirstFailure(i).status
                 /\ reqs'[i].resp.message = FirstFailure(i).message
                 /\ reqs'[i].resp.message = "Insufficient points" =>
                      /\ reqs'[i].resp.data.need = FirstFailure(i).need
                      /\ reqs'[i].resp.data.have = FirstFailure(i).have
            ELSE /\ (reqs'[i].pc = "saveUser" => FirstFailure(i).status = 200)
                 /\ (reqs'[i].pc = "findUser" =>
                       FirstFailure(i).message \in {"none", "User not found", "Insufficient points"})]_vars

\* a redemption of a reward that is not active and expired, by a user who is
\* gone, was answered 400 'not available'
C10_Witness ==
  \E i \in Slots :
     /\ reqs[i].kind = "redeem" /\ reqs[i].pc = "done"
     /\ reqs[i].resp.status = 400 /\ reqs[i].resp.message = "Reward is not available"
     /\ ~rewards[reqs[i].target].isActive
     /\ now > rewards[reqs[i].target].validUntil
     /\ ~users[reqs[i].userId].exists

---------------------------------------------------------------------------
(* Effects of a redemption processed alone (SpecRedeem) *)

Last(seq) == seq[Len(seq)]

\* the step of request i that executes user.save()
SavesUser(i) == reqs[i].pc = "saveUser" /\ reqs'[i].pc = "createHistory"

\* the step of request i that executes RewardHistory.create and answers
LogsHistory(i) == reqs[i].pc = "createHistory" /\ reqs'[i].resp.status \in {200, 201}

\* request i is answered in this step, otherwise than by a failed store operation
Returns(i) == reqs[i].pc # "done" /\ reqs'[i].pc = "done" /\ reqs'[i].resp.status # 500

\* the stored balance of the user of request i goes down by the cost of its
\* reward and one snapshot of the reward is added at the end of the list
Debit(i) ==
  LET uid == reqs[i].userId
      reward == rewards[reqs[i].target]
  IN  /\ users'[uid].total = users[uid].total - reward.pointsCost
      /\ Len(users'[uid].rewards) = Len(users[uid].rewards) + 1
      /\ SubSeq(users'[uid].rewards, 1, Len(users[uid].rewards)) = users[uid].rewards
      /\ \E t \in reqs[i].at..now :
            Last(users'[uid].rewards) =
              [name |-> reward.name, shortDescription |-> reward.shortDescription,
               pointsCost |-> reward.pointsCost, redeemedAt |-> t]
      /\ history' = history

\* one entry of minus the cost is added at the end of the ledger, and the
\* answer carries the stored balance
DebitLogged(i) ==
  LET uid == reqs[i].userId
      reward == rewards[reqs[i].target]
  IN  /\ Len(history') = Len(history) + 1
      /\ SubSeq(history', 1, Len(history)) = history
      /\ Last(history').userId = uid
      /\ Last(history').amount = -reward.pointsCost
      /\ Last(history').reason = <<"Redeemed reward:", reward.name>>
      /\ users' = users
      /\ reqs'[i].resp.status = 200
      /\ reqs'[i].resp.data.remainingPoints = users[uid].total
      /\ reqs'[i].resp.data.pointsCost = reward.pointsCost

\* C11: a reward redemption that succeeds lowers the stored balance by
\* exactly the cost of the reward and appends one snapshot {name,
\* shortDescription, pointsCost, redeemedAt} to the user's list (at save),
\* then appends one ledger entry of minus the cost and answers 200 with the
\* new balance as remainingPoints; it succeeds in no other way.
C11_RedemptionEffect ==
  [][\A i \in Slots :
       reqs[i].kind = "redeem" =>
         /\ SavesUser(i) => Debit(i)
         /\ LogsHistory(i) => DebitLogged(i)
         /\ (Returns(i) /\ reqs'[i].resp.status = 200) => reqs[i].pc = "createHistory"
         /\ (reqs[i].pc # "saveUser" /\ reqs'[i] # reqs[i]) => users' = users
         /\ (reqs[i].pc # "createHistory" /\ reqs'[i] # reqs[i]) => history' = history]_vars

\* a balance of 50 and a reward that costs 30: the redemption was answered
\* 200 with 20 points left, one snapshot and a ledger entry of -30
C11_Witness ==
  \E i \in Slots :
     /\ reqs[i].kind = "redeem" /\ reqs[i].pc = "done" /\ reqs[i].resp.status = 200
     /\ reqs[i].resp.data.remainingPoints = 20
     /\ users[reqs[i].userId].total = 20
     /\ Len(users[reqs[i].userId].rewards) = 1
     /\ users[reqs[i].userId].rewards[1].pointsCost = 30
     /\ Len(history) = 2 /\ Last(history).amount = -30

\* the user of request i holds a snapshot of the reward already
Held(i) ==
  \E k \in 1..Len(users[reqs[i].userId].rewards) :
     users[reqs[i].userId].rewards[k].name = rewards[reqs[i].target].name

\* C12: a redemption of a reward the user has redeemed before is treated as
\* a new one: when the stored balance covers the cost it goes on to debit
\* the cost again, with another snapshot and another ledger entry of minus
\* the cost; it is answered 400 'Insufficient points' exactly when the
\* balance is below the cost, and then nothing is written.
C12_DebitsAgain ==
  [][\A i \in Slots :
       (reqs[i].kind = "redeem" /\ reqs[i].target \in RewardIds /\ Held(i)) =>
         LET uid == reqs[i].userId
             cost == rewards[reqs[i].target].pointsCost
         IN  /\ (reqs[i].pc = "findUser" /\ users[uid].exists /\ reqs'[i] # reqs[i]
                   /\ ~(reqs'[i].pc = "done" /\ reqs'[i].resp.status = 500)) =>
                  /\ users' = users /\ history' = history
                  /\ IF users[uid].total >= cost
                       THEN /\ reqs'[i].pc = "saveUser"
                            /\ reqs'[i].user.total = users[uid].total - cost
                       ELSE /\ reqs'[i].pc = "done"
                            /\ reqs'[i].resp.status = 400
                            /\ reqs'[i].resp.message = "Insufficient points"
                            /\ reqs'[i].resp.data = [need |-> cost, have |-> users[uid].total]
             /\ SavesUser(i) => Debit(i)
             /\ LogsHistory(i) => DebitLogged(i)]_vars

\* a balance of 50 and a reward that costs 30: the first redemption left 20,
\* the second one was answered 400 and left 20
C12_Witness ==
  \E i \in Slots :
     /\ reqs[i].kind = "redeem" /\ reqs[i].pc = "done"
     /\ reqs[i].target \in RewardIds /\ Held(i)
     /\ reqs[i].resp.status = 400 /\ reqs[i].resp.message = "Insufficient points"
     /\ reqs[i].resp.data = [need |-> 30, have |-> 20]
     /\ users[reqs[i].userId].total = 20
     /\ Len(users[reqs[i].userId].rewards) = 1
     /\ Len(history) = 2

\* the stored balance of the user of request i goes up by the points of its
\* place; nothing else of the user changes
Credit(i) ==
  LET uid == reqs[i].userId
      place == places[reqs[i].target]
  IN  /\ users'[uid] = [users[uid] EXCEPT !.total = @ + place.redemption.pointsCost]
      /\ history' = history

\* one entry of the points is added at the end of the ledger, and the answer
\* carries the points and the stored balance
CreditLogged(i) ==
  LET uid == reqs[i].userId
      place == places[reqs[i].target]
  IN  /\ Len(history') = Len(history) + 1
      /\ SubSeq(history', 1, Len(history)) = history
      /\ Last(history').userId = uid
      /\ Last(history').amount = place.redemption.pointsCost
      /\ Last(history').reason = <<"Redeemed at", place.name>>
      /\ users' = users
      /\ reqs'[i].resp.status = 200
      /\ reqs'[i].resp.data = [pointsAwarded |-> place.redemption.pointsCost,
                               totalPoints |-> users[uid].total]

\* C13: a place redemption is answered 404 when the place is missing and 400
\* when it is not eligible; otherwise, for a user who exists and whatever the
\* balance, it credits exactly redemption.pointsCost (at save), appends one
\* ledger entry of that amount and answers 200 with pointsAwarded and the new
\* totalPoints; it succeeds in no other way.
C13_PlaceRedemption ==
  [][\A i \in Slots :
       reqs[i].kind = "placeRedeem" =>
         LET place == FindById(places, reqs[i].target)
             user == FindById(users, reqs[i].userId)
         IN  /\ (reqs[i].pc = "findPlace" /\ reqs'[i] # reqs[i]
                   /\ ~(reqs'[i].pc = "done" /\ reqs'[i].resp.status = 500)) =>
                  IF ~place.exists
                    THEN reqs'[i].pc = "done" /\ reqs'[i].resp.status = 404
                  ELSE IF ~place.redemption.eligible
                    THEN reqs'[i].pc = "done" /\ reqs'[i].resp.status = 400
                  ELSE reqs'[i].pc = "findUser"
             /\ (reqs[i].pc = "findUser" /\ reqs'[i] # reqs[i]
                   /\ ~(reqs'[i].pc = "done" /\ reqs'[i].resp.status = 500)) =>
                  IF ~user.exists
                    THEN reqs'[i].pc = "done" /\ reqs'[i].resp.status = 404
                    ELSE reqs'[i].pc = "saveUser"
             /\ SavesUser(i) => Credit(i)
             /\ LogsHistory(i) => CreditLogged(i)
             /\ (Returns(i) /\ reqs'[i].resp.status = 200) => reqs[i].pc = "createHistory"
             /\ reqs[i].pc \in {"findUser", "saveUser", "createHistory"} =>
                  place.exists /\ place.redemption.eligible
             /\ (reqs[i].pc # "saveUser" /\ reqs'[i] # reqs[i]) => users' = users
             /\ (reqs[i].pc # "createHistory" /\ reqs'[i] # reqs[i]) => history' = history]_vars

\* a redemption at the eligible place was answered 200 with 50 points after
\* one at the other place had been refused
C13_Witness ==
  \E i \in Slots :
     /\ reqs[i].kind = "placeRedeem" /\ reqs[i].pc = "done" /\ reqs[i].resp.status = 200
     /\ reqs[i].resp.data = [pointsAwarded |-> 50, totalPoints |-> 50]
     /\ users[reqs[i].userId].total = 50
     /\ Len(history) = 1 /\ Last(history).amount = 50
     /\ tally.received >= 2

\* C14: a place redemption is never refused because of an earlier one, and
\* once every request has returned without a failed store operation the
\* balance is the points of the place times the number k of ledger entries
\* of its redemptions (one per request answered 200), less the points spent.
C14_NoUniqueness ==
  /\ \A i \in Slots :
        (reqs[i].kind = "placeRedeem" /\ reqs[i].pc = "done"
           /\ reqs[i].target \in PlaceIds /\ places[reqs[i].target].redemption.eligible)
          => reqs[i].resp.status \in {200, 401, 404, 500}
  /\ (Quiescent /\ tally.errors = 0) =>
        \A uid \in UserIds :
           /\ users[uid].total =
                places["p2"].redemption.pointsCost * Len(LedgerOf(uid, "Redeemed at"))
                  - tally.spent
           /\ \A k \in 1..Len(LedgerOf(uid, "Redeemed at")) :
                 LedgerOf(uid, "Redeemed at")[k].amount = places["p2"].redemption.pointsCost

\* three redemptions at the same place on one day were answered 200: the
\* balance is 150 and the ledger has three entries
C14_Witness ==
  /\ Quiescent /\ tally.errors = 0 /\ tally.received = 3
  /\ \E i \in Slots : reqs[i].kind = "placeRedeem" /\ reqs[i].resp.status = 200
  /\ Len(history) = 3
  /\ \A k \in 1..Len(history) :
        history[k].reason = <<"Redeemed at", "Cafe">> /\ Day(history[k].timestamp) = Day(now)
  /\ \A uid \in UserIds : users[uid].total = 150

---------------------------------------------------------------------------
(* Frame properties of the three flows under concurrent requests (Spec) *)

\* seq is the beginning of seq2
Extends(seq2, seq) ==
  Len(seq2) >= Len(seq) /\ SubSeq(seq2, 1, Len(seq)) = seq

\* C15: Checkin records and ledger entries are append-only: every step
\* leaves the records that exist as they are, in place, and can only add
\* records after them.
C15_AppendOnly ==
  [][Extends(checkins', checkins) /\ Extends(history', history)]_vars

\* two check-ins were recorded and entered in the ledger, and a request has
\* failed part-way since
C15_Witness ==
  /\ Len(checkins) >= 2 /\ Len(history) >= 2
  /\ \E i \in Slots : reqs[i].pc = "done" /\ reqs[i].resp.status = 500
  /\ Len(checkins) > Len(LedgerOf("u1", "Check-in at"))

\* C16: the three flows only read the catalog: no step of a check-in, of a
\* reward redemption or of a place redemption, accepted or rejected, changes
\* a Place record or a Reward record.
C16_CatalogReadOnly ==
  [][places' = places /\ rewards' = rewards]_vars

\* a check-in, a place redemption and a reward redemption have succeeded and
\* the catalog is the one the run started with
C16_Witness ==
  /\ tally.checkins >= 1 /\ tally.spent > 0
  /\ Len(LedgerOf("u1", "Redeemed at")) >= 1
  /\ Quiescent
  /\ places = InitPlaces /\ rewards = InitRewards

---------------------------------------------------------------------------
(* Frame of the account routes (SpecAccount) *)

PointsFlows == {"checkin", "redeem", "placeRedeem"}

\* C17: the stored balance of a user changes only in the user.save() step of
\* a check-in, a reward redemption or a place redemption of that user, and
\* the ledger only in the RewardHistory.create step of one of them: the
\* steps of every other route (profile update, bookmark add and remove,
\* login, logout, make-admin, the reads of points, rewards and leaderboard)
\* leave both as they are; an account that registers starts with balance 0.
C17_BalanceFrame ==
  [][
      /\ \A uid \in DOMAIN users :
          users'[uid].total # users[uid].total =>
            \E i \in Slots :
               reqs[i].kind \in PointsFlows /\ reqs[i].userId = uid /\ SavesUser(i)
      /\ history' # history =>
            \E i \in Slots : reqs[i].kind \in PointsFlows /\ LogsHistory(i)
      /\ \A i \in Slots :
            (reqs'[i] # reqs[i] /\ reqs'[i].kind \notin PointsFlows) =>
               /\ \A uid \in DOMAIN users : users'[uid].total = users[uid].total
               /\ history' = history
      /\ \A uid \in DOMAIN users' \ DOMAIN users :
            /\ users'[uid].total = 0
            /\ \A k \in 1..Len(history') : history'[k].userId # uid]_vars

\* the user has earned 50 points, then a profile update that carried a points
\* total was answered 200: the first name has changed, the balance and the
\* ledger sum are still 50
C17_Witness ==
  \E i \in Slots :
     /\ reqs[i].kind = "profile" /\ reqs[i].pc = "done" /\ reqs[i].resp.status = 200
     /\ "total" \in DOMAIN reqs[i].body
     /\ users[reqs[i].userId].firstName = "Bea"
     /\ users[reqs[i].userId].total = 50
     /\ SumAmounts(Ledger(reqs[i].userId)) = 50

---------------------------------------------------------------------------
(* Retried check-ins (SpecCheckin) *)

\* a Checkin record of the user of request i at its place, on calendar day d
RecordOn(i, d) ==
  \E k \in 1..Len(checkins) :
     /\ checkins[k].userId = reqs[i].userId
     /\ checkins[k].placeId = reqs[i].target
     /\ Day(checkins[k].timestamp) = d

\* request i repeats a check-in that is on record for the day the handler
\* takes as today, from a position within the band
Retry(i) ==
  /\ CheckinAt(i) /\ InBand(SentFrom(i))
  /\ \/ reqs[i].pc = "findPlace" /\ RecordOn(i, Day(now))
     \/ reqs[i].pc = "findCheckin" /\ RecordOn(i, Day(reqs[i].today))

\* C18: a check-in sent again on the day of the record of an accepted one
\* writes nothing at any of its steps (balance, ledger and Checkin records
\* stay as they were) and is answered 409, however many times it is sent.
C18_RetryIsSafe ==
  [][\A i \in Slots :
       (Retry(i) /\ reqs'[i] # reqs[i]) =>
          /\ checkins' = checkins /\ history' = history /\ users' = users
          /\ reqs'[i].pc \in {"findCheckin", "done"}
          /\ reqs[i].pc = "findCheckin" => reqs'[i].pc = "done"
          /\ reqs'[i].pc = "findCheckin" => Day(reqs'[i].today) = Day(now)
          /\ reqs'[i].pc = "done" => reqs'[i].resp.status \in {409, 500}]_vars

\* one check-in was accepted and sent twice more on the same day: the third
\* request was answered 409 and there is one record, one ledger entry and a
\* balance of 10
C18_Witness ==
  \E i \in Slots :
     /\ CheckinAt(i) /\ reqs[i].pc = "done" /\ reqs[i].resp.status = 409
     /\ InBand(SentFrom(i))
     /\ tally.received = 3 /\ tally.checkins = 1 /\ tally.errors = 0
     /\ Len(checkins) = 1 /\ checkins[1].placeId = reqs[i].target
     /\ Day(checkins[1].timestamp) = Day(now)
     /\ Len(history) = 1
     /\ users[reqs[i].userId].total = CheckinPoints

---------------------------------------------------------------------------
(* Failed ledger writes of the redemptions (SpecRedeem) *)

\* the step in which the RewardHistory.create of request i fails and the
\* request is answered 500
LedgerWriteFails(i) ==
  /\ reqs[i].kind \in {"redeem", "placeRedeem"}
  /\ reqs[i].pc = "createHistory"
  /\ reqs'[i].pc = "done" /\ reqs'[i].resp.status = 500

\* the balance the user had when request i read the user document
BalanceBefore(i) ==
  IF reqs[i].kind = "redeem"
    THEN reqs[i].user.total + reqs[i].reward.pointsCost
    ELSE reqs[i].user.total - reqs[i].place.redemption.pointsCost

\* C19: when the ledger write of a reward redemption or of a place
\* redemption fails and the request is answered 500, the user's balance is
\* the one from before the request, the redeemed-rewards list has no
\* snapshot of the request, and the ledger has no entry of it.
C19_NoDrift ==
  [][\A i \in Slots :
       LedgerWriteFails(i) =>
          /\ users'[reqs[i].userId].total = BalanceBefore(i)
          /\ reqs[i].kind = "redeem" =>
               \A k \in 1..Len(users'[reqs[i].userId].rewards) :
                  users'[reqs[i].userId].rewards[k] # reqs[i].user.rewards[1]
          /\ history' = history]_vars

---------------------------------------------------------------------------
(* Malformed coordinates (SpecValidation) *)

\* the coordinates of a body are malformed: not an array of two elements,
\* or an element that is not numeric, or a longitude outside [-180, 180] or
\* a latitude outside [-90, 90]
Malformed(body) ==
  LET c == body.coordinates
  IN  \/ c.type # "array"
      \/ Len(c.items) # 2
      \/ \E k \in 1..2 : parseFloat(c.items[k]) = NaN
      \/ ~WithinDegrees(parseFloat(c.items[1]), 180)
      \/ ~WithinDegrees(parseFloat(c.items[2]), 90)

\* C20: a check-in whose coordinates are malformed is answered 400 by the
\* validation (401 when the user is unknown) and its handler never runs: it
\* reaches no distance check and writes nothing.
C20_MalformedRejected ==
  \A i \in Slots :
     (reqs[i].kind = "checkin" /\ Malformed(reqs[i].body)) =>
        /\ reqs[i].pc = "done"
        /\ reqs[i].resp.status \in {400, 401}
        /\ reqs[i].resp.status = 400 =>
             reqs[i].resp.message \in
               {"Coordinates must be an array [longitude, latitude]", "Invalid coordinates"}

---------------------------------------------------------------------------
(* Sessions, access and the account routes *)

\* the routes of the model that run behind the auth middleware
Protected ==
  {"checkin", "redeem", "placeRedeem", "profile", "bookmark", "unbookmark",
   "points", "rewards"}

\* this step writes nothing to the collections
StoresUnchanged ==
  /\ users' = users /\ places' = places /\ rewards' = rewards
  /\ checkins' = checkins /\ history' = history

\* C21: once a non-empty token was sent to POST /logout, every later request
\* that carries it to a route behind auth is answered 401 in the step in
\* which it arrives, its handler takes no step and nothing is written; and
\* no step takes a token from the blacklist.
C21_LogoutIsFinal ==
  [][
     /\ blacklistedTokens \subseteq blacklistedTokens'
     /\ tally'.loggedOut \subseteq blacklistedTokens'
     /\ \A i \in Arrived :
          (reqs'[i].kind \in Protected /\ reqs'[i].token \in tally.loggedOut) =>
             /\ reqs'[i].pc = "done"
             /\ reqs'[i].resp.status = 401
             /\ StoresUnchanged
  ]_vars

\* a check-in that carried a logged-out token of a user who still exists has
\* been answered 401, while a check-in of the other session is being handled
C21_Witness ==
  \E i, j \in Slots :
     /\ reqs[i].kind = "checkin" /\ reqs[i].token \in tally.loggedOut
     /\ users[reqs[i].token.id].exists
     /\ reqs[i].pc = "done" /\ reqs[i].resp.status = 401
     /\ reqs[j].kind = "checkin" /\ reqs[j].pc = "findCheckin"
     /\ reqs[j].token \in SessionTokens \ tally.loggedOut


\* C22: a request for the rewards of user :id that passed auth is answered
\* 403 exactly when the caller is not an admin and :id is not the caller's
\* own id; the caller's own rewards and an admin's requests are let through.
C22_SelfOrAdmin ==
  [][
     \A i \in Arrived :
        (reqs'[i].kind = "rewards" /\ Auth(reqs'[i].userId)) =>
           (reqs'[i].resp.status = 403 <=>
              (reqs'[i].target # reqs'[i].userId /\ users[reqs'[i].userId].role # "admin"))
  ]_vars


\* the query returned the list data, of the n users of highest balance, in
\* descending order of balance
IsTop(data, n) ==
  /\ Len(data) = Min({n, Cardinality(AllUsers)})
  /\ \A a \in 1..Len(data) : data[a].id \in AllUsers /\ data[a].total = users[data[a].id].total
  /\ \A a, b \in 1..Len(data) : a < b => data[a].id # data[b].id /\ data[a].total >= data[b].total
  /\ \A a \in 1..Len(data), u \in AllUsers \ {data[b].id : b \in 1..Len(data)} :
        data[a].total >= users[u].total

\* C23: GET /leaderboard returns min(5, number of users) entries, in
\* descending order of balance, and no user left out has a higher balance
\* than a user of the list.
C23_TopFive ==
  [][
     \A i \in Arrived : reqs'[i].kind = "leaderboard" => IsTop(reqs'[i].resp.data, 5)
  ]_vars


\* the array holds no value twice
NoDuplicates(array) == \A a, b \in 1..Len(array) : array[a] = array[b] => a = b

Holds(array, x) == \E k \in 1..Len(array) : array[k] = x

\* C24: the bookmarks of a user never hold a place twice; a bookmark request
\* for a place already held leaves the list as it is, one for a place that
\* does not exist is answered 404 and leaves the list as it is, an accepted
\* one leaves the place in the list, and after an accepted removal the list
\* does not hold the place.
C24_BookmarksAreASet ==
  [][
     /\ \A uid \in UserIds : NoDuplicates(users'[uid].bookmarks)
     /\ \A i \in Slots :
          LET uid == reqs[i].userId
              pid == reqs[i].target
          IN  /\ (reqs[i].kind = "bookmark" /\ Returns(i)) =>
                   /\ Holds(users[uid].bookmarks, pid) => users'[uid].bookmarks = users[uid].bookmarks
                   /\ ~FindById(places, pid).exists =>
                         /\ reqs'[i].resp.status = 404
                         /\ users'[uid].bookmarks = users[uid].bookmarks
                   /\ FindById(places, pid).exists =>
                         /\ reqs'[i].resp.status = 200
                         /\ Holds(users'[uid].bookmarks, pid)
              /\ (reqs[i].kind = "unbookmark" /\ Returns(i)) =>
                   /\ reqs'[i].resp.status = 200
                   /\ ~Holds(users'[uid].bookmarks, pid)
  ]_vars

\* a place of a list of two bookmarks has been bookmarked again and the
\* request was accepted
C24_Witness ==
  \E i \in Slots : \E uid \in UserIds :
     /\ reqs[i].kind = "bookmark" /\ reqs[i].userId = uid
     /\ reqs[i].pc = "done" /\ reqs[i].resp.status = 200
     /\ reqs[i].resp.data = users[uid].bookmarks
     /\ Len(users[uid].bookmarks) = 2
     /\ tally.received = 3


---------------------------------------------------------------------------
(* Expiry, the calendar day and the frame of a rejected request *)

\* the step of request i that tests the reward it has read: the request is
\* answered, or goes on to read the user
TestsReward(i) ==
  /\ reqs[i].kind = "redeem" /\ reqs[i].pc = "findReward"
  /\ Returns(i) \/ reqs'[i].pc = "findUser"

\* C25: an active reward passes the expiry gate exactly when it has no
\* validUntil or its validUntil is strictly later than the time of the test;
\* otherwise the request is answered 400 'Reward has expired' and nothing is
\* written.
C25_ExpiryGate ==
  [][
     \A i \in Slots :
        LET reward == FindById(rewards, reqs[i].target)
        IN  (TestsReward(i) /\ reward.exists /\ reward.isActive) =>
               IF reward.validUntil = NoDate \/ reward.validUntil > now
                 THEN reqs'[i].pc = "findUser"
                 ELSE /\ reqs'[i].resp = Response(400, "Reward has expired", <<>>)
                      /\ StoresUnchanged
  ]_vars


\* the step of request i in which Checkin.findOne answers
LooksForRecord(i) ==
  /\ CheckinAt(i) /\ reqs[i].pc = "findCheckin"
  /\ Returns(i) \/ reqs'[i].pc = "createCheckin"

\* C26: the window of the duplicate test is the calendar day of the server:
\* the handler takes the midnight before its clock reading as today; a
\* check-in is answered 409 when the user has a record at the place on that
\* day, and is accepted when there is none, however short a time ago the
\* record of the day before was made; the accepted check-in adds 10 points.
C26_CalendarDay ==
  [][
     \A i \in Slots :
        /\ (reqs[i].kind = "checkin" /\ reqs[i].pc = "findPlace"
               /\ reqs'[i].pc = "findCheckin") =>
              reqs'[i].today = Day(now) * TicksPerDay
        /\ LooksForRecord(i) =>
              IF RecordOn(i, Day(reqs[i].today))
                THEN reqs'[i].resp.status = 409 /\ StoresUnchanged
                ELSE reqs'[i].pc = "createCheckin"
        /\ (reqs[i].kind = "checkin" /\ SavesUser(i)) =>
              users'[reqs[i].userId].total = users[reqs[i].userId].total + CheckinPoints
  ]_vars

\* a check-in was accepted on the day after the first one, less than a day
\* after it, and the balance is 20
C26_Witness ==
  \E i \in Slots :
     /\ CheckinAt(i) /\ reqs[i].pc = "done" /\ reqs[i].resp.status = 201
     /\ Len(checkins) = 2
     /\ checkins[1].userId = checkins[2].userId
     /\ checkins[1].placeId = checkins[2].placeId
     /\ Day(checkins[2].timestamp) = Day(checkins[1].timestamp) + 1
     /\ checkins[2].timestamp - checkins[1].timestamp < TicksPerDay
     /\ users[reqs[i].userId].total = 2 * CheckinPoints


\* the positions of a handler at which it has written nothing yet
BeforeWrites(kind) ==
  CASE kind = "checkin"     -> {"findPlace", "findCheckin"}
    [] kind = "redeem"      -> {"findReward", "findUser"}
    [] kind = "placeRedeem" -> {"findPlace", "findUser"}
    [] OTHER                -> {}

\* request i is answered 400, 404 or 409 in this step
Rejected(i) ==
  /\ reqs'[i] # reqs[i] /\ reqs'[i].pc = "done"
  /\ reqs'[i].resp.status \in {400, 404, 409}

\* C27: a check-in, reward redemption or place redemption that is answered
\* 400, 404 or 409 has written nothing: it is turned down at a position
\* before the first write of its handler, in a step that leaves users,
\* Checkin records and ledger as they are; every step a handler takes from
\* such a position leaves them as they are, and a handler that has written
\* does not come back to such a position.
C27_RejectedWritesNothing ==
  [][
     \A i \in Slots :
        /\ (Rejected(i) /\ reqs'[i].kind \in PointsFlows) =>
              /\ StoresUnchanged
              /\ reqs[i].pc \in BeforeWrites(reqs[i].kind) \cup {"done"}
        /\ (reqs'[i] # reqs[i] /\ reqs[i].kind \in PointsFlows) =>
              /\ reqs[i].pc \in BeforeWrites(reqs[i].kind) => StoresUnchanged
              /\ reqs[i].pc \notin BeforeWrites(reqs[i].kind) \cup {"done"} =>
                    reqs'[i].pc \notin BeforeWrites(reqs[i].kind)
  ]_vars

\* after an accepted check-in and an accepted place redemption a reward
\* redemption has been turned down, and balance, ledger and Checkin records
\* are those of the two accepted requests
C27_Witness ==
  \E i \in Slots :
     /\ reqs[i].kind = "redeem" /\ reqs[i].pc = "done"
     /\ reqs[i].resp.status \in {400, 404}
     /\ tally.received = 3 /\ tally.errors = 0
     /\ Len(checkins) = 1 /\ Len(history) = 2
     /\ users[reqs[i].userId].total = CheckinPoints + places["p2"].redemption.pointsCost
     /\ users[reqs[i].userId].rewards = <<>>


---------------------------------------------------------------------------
(* Credits of overlapping requests, and the ledger of requests in sequence *)

\* request i was a check-in or a place redemption and has been accepted
Credited(i) ==
  /\ reqs[i].pc = "done"
  /\ \/ reqs[i].kind = "checkin" /\ reqs[i].resp.status = 201
     \/ reqs[i].kind = "placeRedeem" /\ reqs[i].resp.status = 200

\* the points the answer of request i says were awarded
Awarded(i) ==
  IF reqs[i].kind = "checkin" THEN reqs[i].resp.data.awarded
                              ELSE reqs[i].resp.data.pointsAwarded

\* C28: when the first two requests of a new user were crediting requests
\* handled at the same time and both were accepted, the stored balance is the
\* sum of the points the two answers awarded.
C28_CreditsNotLost ==
  (tally.received = 2 /\ \A i \in Slots : Credited(i)) =>
     \A uid \in UserIds : users[uid].total = Awarded(1) + Awarded(2)

\* the requests of the three flows that this step answers as accepted
Accepted ==
  {i \in Answered : reqs'[i].kind \in PointsFlows /\ reqs'[i].resp.status \in {200, 201}}

\* C29: with requests handled one at a time and no failing store operation,
\* whenever no request is in progress the amounts of the user's ledger add
\* up to the stored balance, which starts at 0 with an empty ledger; and the
\* ledger grows by one entry in each step that answers a request as
\* accepted, and in no other step.
C29_SequentialReconciliation ==
  [][
     /\ Quiescent' => \A uid \in UserIds : SumAmounts(Ledger(uid))' = users'[uid].total
     /\ Len(history') = Len(history) + Cardinality(Accepted)
     /\ tally.received = 0 =>
           \A uid \in UserIds : users[uid].total = 0 /\ Ledger(uid) = <<>>
  ]_vars

\* a check-in, a place redemption and a reward redemption were accepted one
\* after the other: three ledger entries that add up to the balance of 30
C29_Witness ==
  /\ Quiescent /\ tally.received = 3 /\ tally.checkins = 1
  /\ \A uid \in UserIds :
        /\ Len(Ledger(uid)) = 3
        /\ Len(users[uid].rewards) = 1
        /\ users[uid].total = CheckinPoints + places["p2"].redemption.pointsCost
                                 - users[uid].rewards[1].pointsCost
        /\ SumAmounts(Ledger(uid)) = users[uid].total

\* the user.save() of redemption i writes the debited total and the snapshot
\* of its reward together
WritesDebitAndSnapshot(i) ==
  LET uid == reqs[i].userId
  IN  /\ users'[uid].total = reqs[i].user.total
      /\ Len(users'[uid].rewards) = Len(users[uid].rewards) + 1
      /\ SubSeq(users'[uid].rewards, 1, Len(users[uid].rewards)) = users[uid].rewards
      /\ Last(users'[uid].rewards).name = reqs[i].reward.name
      /\ Last(users'[uid].rewards).pointsCost = reqs[i].reward.pointsCost

===========================================================================
